---- MODULE Spec2Model ----
(***************************************************************************)
(* Lyrics-to-audio synchronization of noraemong                            *)
(* (src/src/sync/sync_lyrics.py).                                          *)
(*                                                                         *)
(* Texts are sequences of characters; a character is a one-element name    *)
(* ("a", " ", "E_ACUTE", ...).  Times are in tenths of a second.  A        *)
(* similarity score or threshold k stands for the float k / 100.0 (the     *)
(* fuzz metrics return integers 0..100 which the code divides by 100.0).   *)
(***************************************************************************)
EXTENDS Integers, Sequences, FiniteSets, TLC

\* ------------------------------------------------------------------------
\* Characters (the classes Python's str.lower, str.split, re and
\* unicodedata assign to them)
\* ------------------------------------------------------------------------

\* U+0020; also the separator of ' '.join
SP == " "

\* characters str.split() and \s treat as whitespace
IsSpace(c) == c \in {" ", "NBSP"}

\* characters matched by \w: letters, digits, numerics and the underscore.
\* "!" (punctuation), "COMB_ACUTE" (U+0301, category Mn) and
\* "FRACTION_SLASH" (U+2044, category Sm) are not word characters.
IsWord(c) == ~IsSpace(c) /\ c \notin {"!", "COMB_ACUTE", "FRACTION_SLASH"}

\* str.lower() on one character: A-Z and U+00C9 have a lower-case mapping;
\* U+210B SCRIPT CAPITAL H has none.
LowerChar(c) ==
  CASE c = "A" -> "a"
    [] c = "B" -> "b"
    [] c = "H" -> "h"
    [] c = "E_ACUTE_CAP" -> "E_ACUTE"
    [] OTHER -> c

\* unicodedata.normalize('NFKD', c) for one character
DecompChar(c) ==
  CASE c = "E_ACUTE" -> <<"e", "COMB_ACUTE">>
    [] c = "E_ACUTE_CAP" -> <<"E", "COMB_ACUTE">>
    [] c = "SCRIPT_H" -> <<"H">>
    [] c = "HALF" -> <<"1", "FRACTION_SLASH", "2">>
    [] c = "NBSP" -> <<" ">>
    [] OTHER -> <<c>>

\* code points 128..255, which fuzzywuzzy's asciidammit deletes
IsLatin1High(c) == c \in {"E_ACUTE", "E_ACUTE_CAP", "HALF", "NBSP"}

\* ------------------------------------------------------------------------
\* String helpers
\* ------------------------------------------------------------------------

\* text.lower()
lower(text) == [k \in 1..Len(text) |-> LowerChar(text[k])]

RECURSIVE SplitFrom(_, _, _)
SplitFrom(text, k, cur) ==
  IF k > Len(text)
  THEN IF cur = <<>> THEN <<>> ELSE <<cur>>
  ELSE IF IsSpace(text[k])
       THEN IF cur = <<>>
            THEN SplitFrom(text, k + 1, <<>>)
            ELSE <<cur>> \o SplitFrom(text, k + 1, <<>>)
       ELSE SplitFrom(text, k + 1, Append(cur, text[k]))

\* text.split(): the maximal runs of non-whitespace characters
split(text) == SplitFrom(text, 1, <<>>)

RECURSIVE join(_)
\* ' '.join(parts)
join(parts) ==
  IF parts = <<>> THEN <<>>
  ELSE IF Len(parts) = 1 THEN parts[1]
  ELSE parts[1] \o <<SP>> \o join(Tail(parts))

\* re.sub(r'[^\w\s]', ' ', text)
StripPunctuation(text) ==
  [k \in 1..Len(text) |->
     IF IsWord(text[k]) \/ IsSpace(text[k]) THEN text[k] ELSE SP]

RECURSIVE NFKD(_)
\* unicodedata.normalize('NFKD', text)
NFKD(text) ==
  IF text = <<>> THEN <<>> ELSE DecompChar(Head(text)) \o NFKD(Tail(text))

\* LyricsProcessor.normalize_text
normalize_text(text) ==
  NFKD(join(split(StripPunctuation(join(split(lower(text)))))))

\* ------------------------------------------------------------------------
\* fuzzywuzzy.fuzz, as called at sync_lyrics.py:291-293 and :381-382
\* (the pure-Python backend: difflib.SequenceMatcher without junk)
\* ------------------------------------------------------------------------

Max2(x, y) == IF x >= y THEN x ELSE y

Min2(x, y) == IF x <= y THEN x ELSE y

\* utils.intr(100 * (num / den)): int(round(.)), halves go to the even integer
IntR(num, den) ==
  LET q == (100 * num) \div den
      r == (100 * num) % den
  IN  IF 2 * r > den THEN q + 1
      ELSE IF 2 * r < den THEN q
      ELSE IF q % 2 = 0 THEN q ELSE q + 1

RECURSIVE RunLen(_, _, _, _, _, _)
\* length of the longest common run of a[i..ahi] and b[j..bhi] from i and j
RunLen(a, i, ahi, b, j, bhi) ==
  IF i > ahi \/ j > bhi THEN 0
  ELSE IF a[i] # b[j] THEN 0
  ELSE 1 + RunLen(a, i + 1, ahi, b, j + 1, bhi)

\* SequenceMatcher.find_longest_match on a[alo..ahi], b[blo..bhi]: the
\* longest matching block, of those the one starting earliest in a, of those
\* the one starting earliest in b; k = 0 when nothing matches
FindLongestMatch(a, alo, ahi, b, blo, bhi) ==
  LET cand == {ij \in (alo..ahi) \X (blo..bhi) : a[ij[1]] = b[ij[2]]}
      len(ij) == RunLen(a, ij[1], ahi, b, ij[2], bhi)
      Better(p, q) ==
        \/ len(p) > len(q)
        \/ len(p) = len(q) /\ p[1] < q[1]
        \/ len(p) = len(q) /\ p[1] = q[1] /\ p[2] <= q[2]
  IN  IF cand = {} THEN [i |-> alo, j |-> blo, k |-> 0]
      ELSE LET best == CHOOSE p \in cand : \A q \in cand : Better(p, q)
           IN  [i |-> best[1], j |-> best[2], k |-> len(best)]

RECURSIVE MatchingBlocks(_, _, _, _, _, _)
\* SequenceMatcher.get_matching_blocks without the terminating dummy block:
\* the longest match, then recursively the pieces to its left and right
MatchingBlocks(a, alo, ahi, b, blo, bhi) ==
  IF alo > ahi \/ blo > bhi THEN {}
  ELSE LET m == FindLongestMatch(a, alo, ahi, b, blo, bhi)
       IN  IF m.k = 0 THEN {}
           ELSE {m} \cup MatchingBlocks(a, alo, m.i - 1, b, blo, m.j - 1)
                    \cup MatchingBlocks(a, m.i + m.k, ahi, b, m.j + m.k, bhi)

RECURSIVE SumK(_)
SumK(blocks) ==
  IF blocks = {} THEN 0
  ELSE LET m == CHOOSE x \in blocks : TRUE IN m.k + SumK(blocks \ {m})

\* the number of matched characters M of SequenceMatcher(None, a, b)
Matches(a, b) == SumK(MatchingBlocks(a, 1, Len(a), b, 1, Len(b)))

\* fuzz.ratio: 100 for equal strings, 0 when one is empty, else
\* intr(100 * 2M / (len(a) + len(b)))
ratio(s1, s2) ==
  IF s1 = s2 THEN 100
  ELSE IF Len(s1) = 0 \/ Len(s2) = 0 THEN 0
  ELSE IntR(2 * Matches(s1, s2), Len(s1) + Len(s2))

SetMax(S) == CHOOSE x \in S : \A y \in S : x >= y

\* fuzz.partial_ratio: the best ratio of the shorter string against the
\* equally long pieces of the longer one that the matching blocks (and the
\* dummy block at the two ends) line up with
partial_ratio(s1, s2) ==
  IF s1 = s2 THEN 100
  ELSE IF Len(s1) = 0 \/ Len(s2) = 0 THEN 0
  ELSE LET shorter == IF Len(s1) <= Len(s2) THEN s1 ELSE s2
           longer == IF Len(s1) <= Len(s2) THEN s2 ELSE s1
           blocks == MatchingBlocks(shorter, 1, Len(shorter), longer, 1, Len(longer))
           starts == {Max2(m.j - m.i, 0) : m \in blocks}
                       \cup {Len(longer) - Len(shorter)}
           substr(ls) == SubSeq(longer, ls + 1, Min2(ls + Len(shorter), Len(longer)))
           r(ls) == LET sub == substr(ls)
                        m2 == 2 * Matches(shorter, sub)
                        t == Len(shorter) + Len(sub)
                    IN  IF 1000 * m2 > 995 * t THEN 100 ELSE IntR(m2, t)
       IN  SetMax({r(ls) : ls \in starts})

\* code point order of the characters (sorted() compares strings by it)
CodePoint(c) ==
  CASE c = " " -> 32 [] c = "!" -> 33 [] c = "1" -> 49 [] c = "2" -> 50
    [] c = "A" -> 65 [] c = "B" -> 66 [] c = "E" -> 69 [] c = "H" -> 72
    [] c = "a" -> 97 [] c = "b" -> 98 [] c = "c" -> 99 [] c = "d" -> 100
    [] c = "e" -> 101 [] c = "f" -> 102 [] c = "g" -> 103 [] c = "h" -> 104
    [] c = "i" -> 105 [] c = "j" -> 106 [] c = "k" -> 107 [] c = "l" -> 108
    [] c = "m" -> 109 [] c = "n" -> 110 [] c = "o" -> 111 [] c = "p" -> 112
    [] c = "q" -> 113 [] c = "r" -> 114 [] c = "s" -> 115 [] c = "t" -> 116
    [] c = "u" -> 117 [] c = "v" -> 118 [] c = "w" -> 119 [] c = "x" -> 120
    [] c = "y" -> 121 [] c = "z" -> 122
    [] c = "NBSP" -> 160 [] c = "HALF" -> 189
    [] c = "E_ACUTE_CAP" -> 201 [] c = "E_ACUTE" -> 233
    [] c = "COMB_ACUTE" -> 769 [] c = "FRACTION_SLASH" -> 8260
    [] c = "SCRIPT_H" -> 8459

RECURSIVE StrLess(_, _)
\* s < t for Python strings
StrLess(s, t) ==
  IF t = <<>> THEN FALSE
  ELSE IF s = <<>> THEN TRUE
  ELSE IF CodePoint(Head(s)) # CodePoint(Head(t))
       THEN CodePoint(Head(s)) < CodePoint(Head(t))
       ELSE StrLess(Tail(s), Tail(t))

RECURSIVE Insert(_, _)
Insert(tok, sortedToks) ==
  IF sortedToks = <<>> THEN <<tok>>
  ELSE IF StrLess(Head(sortedToks), tok)
       THEN <<Head(sortedToks)>> \o Insert(tok, Tail(sortedToks))
       ELSE <<tok>> \o sortedToks

RECURSIVE sorted(_)
\* sorted(tokens)
sorted(toks) ==
  IF toks = <<>> THEN <<>> ELSE Insert(Head(toks), sorted(Tail(toks)))

\* utils.full_process(s, force_ascii=True): delete the code points 128..255,
\* replace every \W character by a space, lower-case, strip
full_process(s) ==
  LET ascii == SelectSeq(s, LAMBDA c : ~IsLatin1High(c))
      spaced == [k \in 1..Len(ascii) |-> IF IsWord(ascii[k]) THEN ascii[k] ELSE SP]
      low == lower(spaced)
      first == {k \in 1..Len(low) : ~IsSpace(low[k])}
  IN  IF first = {} THEN <<>>
      ELSE SubSeq(low, CHOOSE k \in first : \A m \in first : k <= m,
                       CHOOSE k \in first : \A m \in first : k >= m)

\* fuzz._process_and_sort
process_and_sort(s) == join(sorted(split(full_process(s))))

\* fuzz.token_sort_ratio
token_sort_ratio(s1, s2) == ratio(process_and_sort(s1), process_and_sort(s2))

\* ------------------------------------------------------------------------
\* Inputs of one alignment run
\* ------------------------------------------------------------------------

\* most reference lines of a run
MaxLines == 3

\* most transcribed segments of a run
MaxSegs == 3

\* longest argument of a normalize_text call
MaxTextLen == 3

\* characters of the arguments of normalize_text
NormAlphabet ==
  {"a", "A", " ", "!", "E_ACUTE", "COMB_ACUTE", "SCRIPT_H", "HALF"}

\* LyricSegment.word_timings of a segment built without word timings (None)
None == <<"None">>

\* reference lines as load_lyrics_file returns them (stripped, not empty)
LinePool ==
  { <<"A", "b", " ", "c", "d", "!">>,
    <<"z", "z">> }

\* texts and word lists of transcribed segments
SegPool ==
  { [text |-> <<"a", "b", " ", "c", "d">>, words |-> <<"ab", "cd">>],
    [text |-> <<"d", "a", "b">>, words |-> <<"dab">>],
    [text |-> <<"c", "c", "d">>, words |-> <<"ccd">>] }

\* similarity thresholds (0.0, 0.6, 0.8, 1.0)
ThresholdPool == {0, 60, 80, 100}

\* sequences over S of length lo..hi
SeqsOf(S, lo, hi) == UNION {[1..n -> S] : n \in lo..hi}

\* a segment dict of transcribe_with_timestamps: consecutive segments of one
\* second each, in non-decreasing start order
MakeSegments(items) ==
  [j \in 1..Len(items) |->
     [start |-> 10 * (j - 1), end |-> 10 * j,
      text |-> items[j].text, words |-> items[j].words]]

GenericInputs ==
  { [lines |-> ls, segments |-> MakeSegments(its), threshold |-> t] :
      ls \in SeqsOf(LinePool, 0, MaxLines),
      its \in SeqsOf(SegPool, 0, MaxSegs),
      t \in ThresholdPool }

\* "the quick brown fox jumps"
TheQuickBrownFoxJumps ==
  <<"t", "h", "e", " ", "q", "u", "i", "c", "k", " ", "b", "r", "o", "w", "n",
    " ", "f", "o", "x", " ", "j", "u", "m", "p", "s">>

\* "the quick brown"
TheQuickBrown ==
  <<"t", "h", "e", " ", "q", "u", "i", "c", "k", " ", "b", "r", "o", "w", "n">>

\* "fox jumps"
FoxJumps == <<"f", "o", "x", " ", "j", "u", "m", "p", "s">>

\* "hello world"
HelloWorld == <<"h", "e", "l", "l", "o", " ", "w", "o", "r", "l", "d">>

\* "goodbye now"
GoodbyeNow == <<"g", "o", "o", "d", "b", "y", "e", " ", "n", "o", "w">>

\* one line split across two segments of half a second each
SplitLineInput ==
  [lines |-> <<TheQuickBrownFoxJumps>>,
   segments |-> << [start |-> 0, end |-> 5, text |-> TheQuickBrown,
                    words |-> <<"the", "quick", "brown">>],
                   [start |-> 5, end |-> 10, text |-> FoxJumps,
                    words |-> <<"fox", "jumps">>] >>,
   threshold |-> 60]

\* two lines, each identical to its own segment
ExactMatchInput ==
  [lines |-> <<HelloWorld, GoodbyeNow>>,
   segments |-> << [start |-> 0, end |-> 10, text |-> HelloWorld,
                    words |-> <<"hello", "world">>],
                   [start |-> 10, end |-> 20, text |-> GoodbyeNow,
                    words |-> <<"goodbye", "now">>] >>,
   threshold |-> 60]

\* a line without any candidate after a segment that ended at 4.0
NoMatchInput ==
  [lines |-> <<HelloWorld, GoodbyeNow>>,
   segments |-> << [start |-> 30, end |-> 40, text |-> HelloWorld,
                    words |-> <<"hello", "world">>] >>,
   threshold |-> 90]

\* "ab cd ab cd"
AbCdAbCd == <<"a", "b", " ", "c", "d", " ", "a", "b", " ", "c", "d">>

\* segments of one word each
Dab == [text |-> <<"d", "a", "b">>, words |-> <<"dab">>]

Ccd == [text |-> <<"c", "c", "d">>, words |-> <<"ccd">>]

Abc == [text |-> <<"a", "b", "c">>, words |-> <<"abc">>]

Zz == [text |-> <<"z", "z">>, words |-> <<"zz">>]

\* a segment of punctuation only, without word timings
Bang == [text |-> <<"!">>, words |-> <<>>]

\* the second segment is taken by the first line; the second line is spread
\* over the four segments after it (0.85), no shorter window reaches 0.8
FourWindowInput ==
  [lines |-> << <<"z", "z">>, AbCdAbCd >>,
   segments |-> MakeSegments(<<Dab, Zz, Dab, Ccd, Dab, Ccd>>),
   threshold |-> 80]

\* the windows "dab ccd", "ccd abc" and "ccd abc " (with the empty text of
\* the last segment) all score 0.83 for "ab cd"
TiedWindowsInput ==
  [lines |-> << <<"A", "b", " ", "c", "d", "!">> >>,
   segments |-> MakeSegments(<<Dab, Ccd, Abc, Bang>>),
   threshold |-> 80]

\* two overlapping segments: the second one ends before the first one does
NestedTimesInput ==
  [lines |-> << <<"A", "b", " ", "c", "d", "!">> >>,
   segments |-> << [start |-> 0, end |-> 30, text |-> Dab.text,
                    words |-> Dab.words],
                   [start |-> 10, end |-> 20, text |-> Ccd.text,
                    words |-> Ccd.words] >>,
   threshold |-> 80]

\* the only segment is the text of the second line, and the first line
\* scores 0.67 against it
StarvedLineInput ==
  [lines |-> << <<"A", "b", " ", "c", "d", "!">>, Dab.text >>,
   segments |-> MakeSegments(<<Dab>>),
   threshold |-> 60]

ScenarioInputs ==
  {SplitLineInput, ExactMatchInput, NoMatchInput, FourWindowInput,
   TiedWindowsInput, NestedTimesInput, StarvedLineInput}

Inputs == GenericInputs \cup ScenarioInputs

\* ------------------------------------------------------------------------
\* State
\* ------------------------------------------------------------------------

VARIABLES
  lyrics_lines,            \* argument: the reference lines
  transcription_segments,  \* argument: the transcribed segments
  similarity_threshold,    \* argument, in hundredths
  aligned_segments,        \* the output list
  used_segments,           \* indices (1-based) of the consumed segments
  i,                       \* 1-based index of the line being processed
  pc,                      \* position in _align_text_with_timestamps
  best_match,              \* [kind: "None" | "dict" | "list", segs]
  best_score,
  best_segment_indices,
  contributing,            \* history: per output, the indices it consumed
  norm_text,               \* normalize_text: the argument
  norm_once,               \* normalize_text(norm_text)
  norm_twice,              \* normalize_text(norm_once)
  norm_pc,
  world,                   \* sync_lyrics_to_audio: the lyrics file, the
                           \* transcriber's outcome and the threshold argument
  ppc,                     \* position in sync_lyrics_to_audio / align_lyrics
  load_calls,              \* history: calls of load_lyrics_file
  transcribe_calls,        \* history: calls of transcribe_with_timestamps
  error,                   \* the exception that left sync_lyrics_to_audio
  written,                 \* history: the output files in the order written
  files,                   \* the contents of the output files
  runs,                    \* history: arguments and result of the earlier
                           \* alignment runs of the synchronizer
  process,                 \* MacOSAudioPlayer.process: 0 (None) or a process
  is_playing,              \* MacOSAudioPlayer.is_playing
  is_paused,               \* MacOSAudioPlayer.is_paused
  running,                 \* the player processes that have not ended
  spawned,                 \* the number of processes started so far
  mpc,                     \* position of the thread that calls the player
  was_playing,             \* seek: the local was_playing
  in_seek,                 \* stop / play are running inside seek
  monitor                  \* the _monitor_playback threads: [pc, proc]

alignVars ==
  <<lyrics_lines, transcription_segments, similarity_threshold,
    aligned_segments, used_segments, i, pc, best_match, best_score,
    best_segment_indices, contributing>>

normVars == <<norm_text, norm_once, norm_twice, norm_pc>>

pipeVars == <<world, ppc, load_calls, transcribe_calls, error, written, files>>

runVars == <<runs>>

playerVars ==
  <<process, is_playing, is_paused, running, spawned, mpc, was_playing,
    in_seek, monitor>>

vars == <<alignVars, normVars, pipeVars, runVars, playerVars>>

NoMatch == [kind |-> "None", segs |-> <<>>]

\* lines 262-276: the locals at the head of the first loop iteration
AlignInit ==
  \E inp \in Inputs :
    /\ lyrics_lines = inp.lines
    /\ transcription_segments = inp.segments
    /\ similarity_threshold = inp.threshold
    /\ aligned_segments = <<>>
    /\ used_segments = {}
    /\ i = 1
    /\ pc = IF inp.lines = <<>> THEN "return" ELSE "single"
    /\ best_match = NoMatch
    /\ best_score = 0
    /\ best_segment_indices = <<>>
    /\ contributing = <<>>

\* no alignment run
AlignIdle ==
  /\ lyrics_lines = <<>>
  /\ transcription_segments = <<>>
  /\ similarity_threshold = 0
  /\ aligned_segments = <<>>
  /\ used_segments = {}
  /\ i = 1
  /\ pc = "idle"
  /\ best_match = NoMatch
  /\ best_score = 0
  /\ best_segment_indices = <<>>
  /\ contributing = <<>>

\* the output files before anything is written
NoFiles == [lrc |-> <<>>, srt |-> <<>>, json |-> <<>>]

\* no run of sync_lyrics_to_audio
PipeIdle ==
  /\ world = [lyrics_exists |-> TRUE, lines |-> <<>>, raises |-> "none",
              segments |-> <<>>, threshold |-> 0]
  /\ ppc = "idle"
  /\ load_calls = 0
  /\ transcribe_calls = 0
  /\ error = "none"
  /\ written = <<>>
  /\ files = NoFiles

\* no earlier alignment run
RunIdle == runs = <<>>

\* no audio player
PlayerIdle ==
  /\ process = 0
  /\ is_playing = FALSE
  /\ is_paused = FALSE
  /\ running = {}
  /\ spawned = 0
  /\ mpc = "off"
  /\ was_playing = FALSE
  /\ in_seek = FALSE
  /\ monitor = <<>>

\* no normalization call
NormIdle ==
  /\ norm_text = <<>>
  /\ norm_once = <<>>
  /\ norm_twice = <<>>
  /\ norm_pc = "idle"

\* ------------------------------------------------------------------------
\* LyricsSynchronizer._align_text_with_timestamps
\* ------------------------------------------------------------------------

\* normalized_lyrics[k] (line 265)
normalized_lyrics(k) == normalize_text(lyrics_lines[k])

\* SegmentScore with the division by 100.0 of lines 291-293 left out
SegmentScoreNoDivide(normalized_lyric, segment) ==
  LET normalized_segment == normalize_text(segment.text)
  IN  100 * Max2(ratio(normalized_lyric, normalized_segment),
                 Max2(partial_ratio(normalized_lyric, normalized_segment),
                      token_sort_ratio(normalized_lyric, normalized_segment)))

\* lines 288-296: the score of one segment for a normalized line
SegmentScore(normalized_lyric, segment) ==
  LET normalized_segment == normalize_text(segment.text)
  IN  Max2(ratio(normalized_lyric, normalized_segment),
           Max2(partial_ratio(normalized_lyric, normalized_segment),
                token_sort_ratio(normalized_lyric, normalized_segment)))

RECURSIVE SingleScanNoSkip(_, _, _, _, _, _)
\* SingleScan without the test of line 285 (used segments are candidates)
SingleScanNoSkip(normalized_lyric, segs, used, threshold, j, best) ==
  IF j > Len(segs) THEN best
  ELSE LET score == SegmentScore(normalized_lyric, segs[j])
       IN  IF score > best.score /\ score >= threshold
           THEN SingleScanNoSkip(normalized_lyric, segs, used, threshold, j + 1,
                                 [match |-> [kind |-> "dict", segs |-> <<segs[j]>>],
                                  score |-> score, indices |-> <<j>>])
           ELSE SingleScanNoSkip(normalized_lyric, segs, used, threshold, j + 1, best)

RECURSIVE SingleScanNonStrict(_, _, _, _, _, _)
\* SingleScan with "score >= best_score" for "score > best_score" at line 298
SingleScanNonStrict(normalized_lyric, segs, used, threshold, j, best) ==
  IF j > Len(segs) THEN best
  ELSE IF j \in used
       THEN SingleScanNonStrict(normalized_lyric, segs, used, threshold, j + 1, best)
       ELSE LET score == SegmentScore(normalized_lyric, segs[j])
            IN  IF score >= best.score /\ score >= threshold
                THEN SingleScanNonStrict(normalized_lyric, segs, used, threshold, j + 1,
                                [match |-> [kind |-> "dict", segs |-> <<segs[j]>>],
                                 score |-> score, indices |-> <<j>>])
                ELSE SingleScanNonStrict(normalized_lyric, segs, used, threshold, j + 1, best)

RECURSIVE SingleScan(_, _, _, _, _, _)
\* lines 284-301: the loop over the segments from index j on, with the
\* best match so far
SingleScan(normalized_lyric, segs, used, threshold, j, best) ==
  IF j > Len(segs) THEN best
  ELSE IF j \in used
       THEN SingleScan(normalized_lyric, segs, used, threshold, j + 1, best)
       ELSE LET score == SegmentScore(normalized_lyric, segs[j])
            IN  IF score > best.score /\ score >= threshold
                THEN SingleScan(normalized_lyric, segs, used, threshold, j + 1,
                                [match |-> [kind |-> "dict", segs |-> <<segs[j]>>],
                                 score |-> score, indices |-> <<j>>])
                ELSE SingleScan(normalized_lyric, segs, used, threshold, j + 1, best)

\* lines 279-281
NoBest == [match |-> NoMatch, score |-> 0, indices |-> <<>>]

\* lines 375-383: the score of a window of segments
WindowScore(target_lyric, combined_segments) ==
  LET combined_text ==
        join([k \in 1..Len(combined_segments) |->
                normalize_text(combined_segments[k].text)])
  IN  Max2(ratio(target_lyric, combined_text),
           token_sort_ratio(target_lyric, combined_text))

RECURSIVE MultiScanNoSkip(_, _, _, _, _, _, _)
\* MultiScan without the test of line 370 (windows may hold used segments)
MultiScanNoSkip(target_lyric, segs, used, threshold, window_size, start_idx, best) ==
  IF window_size > 4 THEN best
  ELSE IF start_idx > Len(segs) - window_size + 1
       THEN MultiScanNoSkip(target_lyric, segs, used, threshold, window_size + 1, 1, best)
       ELSE LET indices == [k \in 1..window_size |-> start_idx + k - 1]
                combined_segments == SubSeq(segs, start_idx, start_idx + window_size - 1)
            IN  IF FALSE
                THEN MultiScanNoSkip(target_lyric, segs, used, threshold,
                               window_size, start_idx + 1, best)
                ELSE LET score == WindowScore(target_lyric, combined_segments)
                     IN  IF score > best.score /\ score >= threshold
                         THEN MultiScanNoSkip(target_lyric, segs, used, threshold,
                                        window_size, start_idx + 1,
                                        [match |-> [kind |-> "list",
                                                    segs |-> combined_segments],
                                         score |-> score, indices |-> indices])
                         ELSE MultiScanNoSkip(target_lyric, segs, used, threshold,
                                        window_size, start_idx + 1, best)

RECURSIVE MultiScanNonStrict(_, _, _, _, _, _, _)
\* MultiScan with "score >= best_score" for "score > best_score" at line 385
MultiScanNonStrict(target_lyric, segs, used, threshold, window_size, start_idx, best) ==
  IF window_size > 4 THEN best
  ELSE IF start_idx > Len(segs) - window_size + 1
       THEN MultiScanNonStrict(target_lyric, segs, used, threshold, window_size + 1, 1, best)
       ELSE LET indices == [k \in 1..window_size |-> start_idx + k - 1]
                combined_segments == SubSeq(segs, start_idx, start_idx + window_size - 1)
            IN  IF \E k \in 1..window_size : indices[k] \in used
                THEN MultiScanNonStrict(target_lyric, segs, used, threshold,
                               window_size, start_idx + 1, best)
                ELSE LET score == WindowScore(target_lyric, combined_segments)
                     IN  IF score >= best.score /\ score >= threshold
                         THEN MultiScanNonStrict(target_lyric, segs, used, threshold,
                                        window_size, start_idx + 1,
                                        [match |-> [kind |-> "list",
                                                    segs |-> combined_segments],
                                         score |-> score, indices |-> indices])
                         ELSE MultiScanNonStrict(target_lyric, segs, used, threshold,
                                        window_size, start_idx + 1, best)

RECURSIVE MultiScan(_, _, _, _, _, _, _)
\* lines 367-388: the loops over window_size and start_idx (1-based), with
\* the best window so far
MultiScan(target_lyric, segs, used, threshold, window_size, start_idx, best) ==
  IF window_size > 4 THEN best
  ELSE IF start_idx > Len(segs) - window_size + 1
       THEN MultiScan(target_lyric, segs, used, threshold, window_size + 1, 1, best)
       ELSE LET indices == [k \in 1..window_size |-> start_idx + k - 1]
                combined_segments == SubSeq(segs, start_idx, start_idx + window_size - 1)
            IN  IF \E k \in 1..window_size : indices[k] \in used
                THEN MultiScan(target_lyric, segs, used, threshold,
                               window_size, start_idx + 1, best)
                ELSE LET score == WindowScore(target_lyric, combined_segments)
                     IN  IF score > best.score /\ score >= threshold
                         THEN MultiScan(target_lyric, segs, used, threshold,
                                        window_size, start_idx + 1,
                                        [match |-> [kind |-> "list",
                                                    segs |-> combined_segments],
                                         score |-> score, indices |-> indices])
                         ELSE MultiScan(target_lyric, segs, used, threshold,
                                        window_size, start_idx + 1, best)

\* LyricsSynchronizer._find_multi_segment_match
find_multi_segment_match(target_lyric, segs, used, threshold) ==
  MultiScan(target_lyric, segs, used, threshold, 2, 1, NoBest)

\* lines 279-301: the single-segment pass for line i
SinglePass ==
  /\ pc = "single"
  /\ LET best == SingleScan(normalized_lyrics(i), transcription_segments,
                            used_segments, similarity_threshold, 1, NoBest)
     IN  /\ best_match' = best.match
         /\ best_score' = best.score
         /\ best_segment_indices' = best.indices
         /\ pc' = IF best.score < similarity_threshold THEN "multi" ELSE "create"
  /\ UNCHANGED <<lyrics_lines, transcription_segments, similarity_threshold,
                 aligned_segments, used_segments, i, contributing>>
  /\ UNCHANGED <<normVars, pipeVars, runVars, playerVars>>

\* MultiPass that marks the segments of the window it returns as used
MultiPassConsumes ==
  /\ pc = "multi"
  /\ LET best == find_multi_segment_match(normalized_lyrics(i),
                   transcription_segments, used_segments, similarity_threshold)
     IN  /\ best_match' = best.match
         /\ best_score' = best.score
         /\ best_segment_indices' = best.indices
         /\ used_segments' =
              used_segments \cup {best.indices[k] : k \in 1..Len(best.indices)}
  /\ pc' = "create"
  /\ UNCHANGED <<lyrics_lines, transcription_segments, similarity_threshold,
                 aligned_segments, i, contributing>>
  /\ UNCHANGED <<normVars, pipeVars, runVars, playerVars>>

\* lines 304-307: the multi-segment pass for line i
MultiPass ==
  /\ pc = "multi"
  /\ LET best == find_multi_segment_match(normalized_lyrics(i),
                   transcription_segments, used_segments, similarity_threshold)
     IN  /\ best_match' = best.match
         /\ best_score' = best.score
         /\ best_segment_indices' = best.indices
  /\ pc' = "create"
  /\ UNCHANGED <<lyrics_lines, transcription_segments, similarity_threshold,
                 aligned_segments, used_segments, i, contributing>>
  /\ UNCHANGED <<normVars, pipeVars, runVars, playerVars>>

\* the truth value of best_match: None is false, a segment dict and a
\* non-empty list are true
Truthy(match) == match.kind # "None" /\ match.segs # <<>>

SeqRange(q) == {q[k] : k \in 1..Len(q)}

SetMin(S) == CHOOSE x \in S : \A y \in S : x <= y

RECURSIVE ExtendWords(_)
\* lines 319-321: combined_words
ExtendWords(segs) ==
  IF segs = <<>> THEN <<>> ELSE Head(segs).words \o ExtendWords(Tail(segs))

\* MatchedSegment carrying the normalized text of the line
MatchedSegmentNormalizedText(match, score, original_lyric) ==
  IF match.kind = "list"
  THEN [start_time |-> SetMin({match.segs[k].start : k \in 1..Len(match.segs)}),
        end_time |-> SetMax({match.segs[k].end : k \in 1..Len(match.segs)}),
        text |-> normalize_text(original_lyric),
        confidence |-> score,
        word_timings |-> ExtendWords(match.segs)]
  ELSE [start_time |-> match.segs[1].start,
        end_time |-> match.segs[1].end,
        text |-> normalize_text(original_lyric),
        confidence |-> score,
        word_timings |-> match.segs[1].words]

\* MatchedSegment taking the end of a single segment from its 'start'
MatchedSegmentEndIsStart(match, score, original_lyric) ==
  IF match.kind = "list"
  THEN [start_time |-> SetMin({match.segs[k].start : k \in 1..Len(match.segs)}),
        end_time |-> SetMax({match.segs[k].end : k \in 1..Len(match.segs)}),
        text |-> original_lyric,
        confidence |-> score,
        word_timings |-> ExtendWords(match.segs)]
  ELSE [start_time |-> match.segs[1].start,
        end_time |-> match.segs[1].start,
        text |-> original_lyric,
        confidence |-> score,
        word_timings |-> match.segs[1].words]

\* MatchedSegment leaving out the word timings of a single segment
MatchedSegmentNoWords(match, score, original_lyric) ==
  IF match.kind = "list"
  THEN [start_time |-> SetMin({match.segs[k].start : k \in 1..Len(match.segs)}),
        end_time |-> SetMax({match.segs[k].end : k \in 1..Len(match.segs)}),
        text |-> original_lyric,
        confidence |-> score,
        word_timings |-> ExtendWords(match.segs)]
  ELSE [start_time |-> match.segs[1].start,
        end_time |-> match.segs[1].end,
        text |-> original_lyric,
        confidence |-> score,
        word_timings |-> <<>>]

\* MatchedSegment taking the end of a window from its last segment
MatchedSegmentLastEnd(match, score, original_lyric) ==
  IF match.kind = "list"
  THEN [start_time |-> SetMin({match.segs[k].start : k \in 1..Len(match.segs)}),
        end_time |-> match.segs[Len(match.segs)].end,
        text |-> original_lyric,
        confidence |-> score,
        word_timings |-> ExtendWords(match.segs)]
  ELSE [start_time |-> match.segs[1].start,
        end_time |-> match.segs[1].end,
        text |-> original_lyric,
        confidence |-> score,
        word_timings |-> match.segs[1].words]

\* lines 316-333: the LyricSegment of a match
MatchedSegment(match, score, original_lyric) ==
  IF match.kind = "list"
  THEN [start_time |-> SetMin({match.segs[k].start : k \in 1..Len(match.segs)}),
        end_time |-> SetMax({match.segs[k].end : k \in 1..Len(match.segs)}),
        text |-> original_lyric,
        confidence |-> score,
        word_timings |-> ExtendWords(match.segs)]
  ELSE [start_time |-> match.segs[1].start,
        end_time |-> match.segs[1].end,
        text |-> original_lyric,
        confidence |-> score,
        word_timings |-> match.segs[1].words]

\* EstimatedSegment starting at the end of the previous segment (no gap)
EstimatedSegmentNoGap(aligned, original_lyric) ==
  LET estimated_start ==
        IF aligned # <<>> THEN aligned[Len(aligned)].end_time ELSE 0
      estimated_end ==
        IF aligned # <<>> THEN estimated_start + 30 ELSE 30
  IN  [start_time |-> estimated_start,
       end_time |-> estimated_end,
       text |-> original_lyric,
       confidence |-> 0,
       word_timings |-> None]

\* EstimatedSegment applying the gap to the first line too
EstimatedSegmentGapFirst(aligned, original_lyric) ==
  LET estimated_start ==
        IF aligned # <<>> THEN aligned[Len(aligned)].end_time + 5 ELSE 5
      estimated_end == estimated_start + 30
  IN  [start_time |-> estimated_start,
       end_time |-> estimated_end,
       text |-> original_lyric,
       confidence |-> 0,
       word_timings |-> None]

\* EstimatedSegment chained from the start of the previous segment
EstimatedSegmentFromStart(aligned, original_lyric) ==
  LET estimated_start ==
        IF aligned # <<>> THEN aligned[Len(aligned)].start_time + 5 ELSE 0
      estimated_end ==
        IF aligned # <<>> THEN estimated_start + 30 ELSE 30
  IN  [start_time |-> estimated_start,
       end_time |-> estimated_end,
       text |-> original_lyric,
       confidence |-> 0,
       word_timings |-> None]

\* EstimatedSegment subtracting the gap from the end of the previous segment
EstimatedSegmentMinusGap(aligned, original_lyric) ==
  LET estimated_start ==
        IF aligned # <<>> THEN aligned[Len(aligned)].end_time - 5 ELSE 0
      estimated_end ==
        IF aligned # <<>> THEN estimated_start + 30 ELSE 30
  IN  [start_time |-> estimated_start,
       end_time |-> estimated_end,
       text |-> original_lyric,
       confidence |-> 0,
       word_timings |-> None]

\* EstimatedSegment starting at 0.0 whatever the output holds
EstimatedSegmentAtZero(aligned, original_lyric) ==
  [start_time |-> 0,
   end_time |-> 30,
   text |-> original_lyric,
   confidence |-> 0,
   word_timings |-> None]

\* EstimatedSegment ending where it starts
EstimatedSegmentZeroDuration(aligned, original_lyric) ==
  LET estimated_start ==
        IF aligned # <<>> THEN aligned[Len(aligned)].end_time + 5 ELSE 0
  IN  [start_time |-> estimated_start,
       end_time |-> estimated_start,
       text |-> original_lyric,
       confidence |-> 0,
       word_timings |-> None]

\* lines 340-352: the LyricSegment of a line without a match
EstimatedSegment(aligned, original_lyric) ==
  LET estimated_start ==
        IF aligned # <<>> THEN aligned[Len(aligned)].end_time + 5 ELSE 0
      estimated_end ==
        IF aligned # <<>> THEN estimated_start + 30 ELSE 30
  IN  [start_time |-> estimated_start,
       end_time |-> estimated_end,
       text |-> original_lyric,
       confidence |-> 0,
       word_timings |-> None]

\* the loop of line 278 after one iteration
NextPc == IF i + 1 > Len(lyrics_lines) THEN "return" ELSE "single"

\* CreateMatched that keeps only the indices of the new match in
\* used_segments
CreateMatchedReleases ==
  /\ pc = "create"
  /\ Truthy(best_match) /\ best_score >= similarity_threshold
  /\ used_segments' = SeqRange(best_segment_indices)
  /\ aligned_segments' =
       Append(aligned_segments,
              MatchedSegment(best_match, best_score, lyrics_lines[i]))
  /\ contributing' = Append(contributing, SeqRange(best_segment_indices))
  /\ i' = i + 1
  /\ pc' = NextPc
  /\ UNCHANGED <<lyrics_lines, transcription_segments, similarity_threshold,
                 best_match, best_score, best_segment_indices>>
  /\ UNCHANGED <<normVars, pipeVars, runVars, playerVars>>

\* CreateMatched without lines 312-313 (the match is not marked as used)
CreateMatchedNoConsume ==
  /\ pc = "create"
  /\ Truthy(best_match) /\ best_score >= similarity_threshold
  /\ aligned_segments' =
       Append(aligned_segments,
              MatchedSegment(best_match, best_score, lyrics_lines[i]))
  /\ contributing' = Append(contributing, SeqRange(best_segment_indices))
  /\ i' = i + 1
  /\ pc' = NextPc
  /\ UNCHANGED <<lyrics_lines, transcription_segments, similarity_threshold,
                 used_segments, best_match, best_score, best_segment_indices>>
  /\ UNCHANGED <<normVars, pipeVars, runVars, playerVars>>

\* lines 310-336: a match was found for line i
CreateMatched ==
  /\ pc = "create"
  /\ Truthy(best_match) /\ best_score >= similarity_threshold
  /\ used_segments' = used_segments \cup SeqRange(best_segment_indices)
  /\ aligned_segments' =
       Append(aligned_segments,
              MatchedSegment(best_match, best_score, lyrics_lines[i]))
  /\ contributing' = Append(contributing, SeqRange(best_segment_indices))
  /\ i' = i + 1
  /\ pc' = NextPc
  /\ UNCHANGED <<lyrics_lines, transcription_segments, similarity_threshold,
                 best_match, best_score, best_segment_indices>>
  /\ UNCHANGED <<normVars, pipeVars, runVars, playerVars>>

\* CreateEstimated that skips the line instead of appending a segment
CreateEstimatedNoAppend ==
  /\ pc = "create"
  /\ ~(Truthy(best_match) /\ best_score >= similarity_threshold)
  /\ i' = i + 1
  /\ pc' = NextPc
  /\ UNCHANGED <<lyrics_lines, transcription_segments, similarity_threshold,
                 aligned_segments, contributing,
                 used_segments, best_match, best_score, best_segment_indices>>
  /\ UNCHANGED <<normVars, pipeVars, runVars, playerVars>>

\* CreateEstimated that also moves the end of the previous output up to the
\* start of the estimate
CreateEstimatedStretchesPrevious ==
  /\ pc = "create"
  /\ ~(Truthy(best_match) /\ best_score >= similarity_threshold)
  /\ LET estimate == EstimatedSegment(aligned_segments, lyrics_lines[i])
         previous ==
           IF aligned_segments = <<>> THEN aligned_segments
           ELSE [aligned_segments EXCEPT
                   ![Len(aligned_segments)].end_time = estimate.start_time]
     IN  aligned_segments' = Append(previous, estimate)
  /\ contributing' = Append(contributing, {})
  /\ i' = i + 1
  /\ pc' = NextPc
  /\ UNCHANGED <<lyrics_lines, transcription_segments, similarity_threshold,
                 used_segments, best_match, best_score, best_segment_indices>>
  /\ UNCHANGED <<normVars, pipeVars, runVars, playerVars>>

\* lines 337-353: no match for line i
CreateEstimated ==
  /\ pc = "create"
  /\ ~(Truthy(best_match) /\ best_score >= similarity_threshold)
  /\ aligned_segments' =
       Append(aligned_segments,
              EstimatedSegment(aligned_segments, lyrics_lines[i]))
  /\ contributing' = Append(contributing, {})
  /\ i' = i + 1
  /\ pc' = NextPc
  /\ UNCHANGED <<lyrics_lines, transcription_segments, similarity_threshold,
                 used_segments, best_match, best_score, best_segment_indices>>
  /\ UNCHANGED <<normVars, pipeVars, runVars, playerVars>>

\* line 355: return aligned_segments
Return ==
  /\ pc = "return"
  /\ pc' = "done"
  /\ UNCHANGED <<lyrics_lines, transcription_segments, similarity_threshold,
                 aligned_segments, used_segments, i, best_match, best_score,
                 best_segment_indices, contributing>>
  /\ UNCHANGED <<normVars, pipeVars, runVars, playerVars>>

Init == AlignInit /\ NormIdle /\ PipeIdle /\ RunIdle /\ PlayerIdle

Next ==
  \/ SinglePass
  \/ MultiPass
  \/ CreateMatched
  \/ CreateEstimated
  \/ Return

Spec == Init /\ [][Next]_vars

\* ------------------------------------------------------------------------
\* Several alignment runs on one LyricsSynchronizer
\* ------------------------------------------------------------------------

\* most alignment runs on one synchronizer
MaxRuns == 3

\* the arguments of the runs
RunInputs == ScenarioInputs

\* the first call of _align_text_with_timestamps on the synchronizer
RunsInit ==
  /\ AlignInit
  /\ [lines |-> lyrics_lines, segments |-> transcription_segments,
      threshold |-> similarity_threshold] \in RunInputs
  /\ runs = <<>>

\* a further call that finds used_segments as the call before left it
AlignAgainKeepsUsed ==
  /\ pc = "done"
  /\ Len(runs) + 1 < MaxRuns
  /\ runs' = Append(runs,
                    [input |-> [lines |-> lyrics_lines,
                                segments |-> transcription_segments,
                                threshold |-> similarity_threshold],
                     output |-> aligned_segments])
  /\ \E inp \in RunInputs :
       /\ lyrics_lines' = inp.lines
       /\ transcription_segments' = inp.segments
       /\ similarity_threshold' = inp.threshold
       /\ pc' = IF inp.lines = <<>> THEN "return" ELSE "single"
  /\ aligned_segments' = <<>>
  /\ i' = 1
  /\ best_match' = NoMatch
  /\ best_score' = 0
  /\ best_segment_indices' = <<>>
  /\ contributing' = <<>>
  /\ UNCHANGED used_segments
  /\ UNCHANGED <<normVars, pipeVars, playerVars>>

\* lines 262-276: a further call of _align_text_with_timestamps on the same
\* synchronizer, after the call before it has returned; its locals are new
AlignAgain ==
  /\ pc = "done"
  /\ Len(runs) + 1 < MaxRuns
  /\ runs' = Append(runs,
                    [input |-> [lines |-> lyrics_lines,
                                segments |-> transcription_segments,
                                threshold |-> similarity_threshold],
                     output |-> aligned_segments])
  /\ \E inp \in RunInputs :
       /\ lyrics_lines' = inp.lines
       /\ transcription_segments' = inp.segments
       /\ similarity_threshold' = inp.threshold
       /\ pc' = IF inp.lines = <<>> THEN "return" ELSE "single"
  /\ aligned_segments' = <<>>
  /\ used_segments' = {}
  /\ i' = 1
  /\ best_match' = NoMatch
  /\ best_score' = 0
  /\ best_segment_indices' = <<>>
  /\ contributing' = <<>>
  /\ UNCHANGED <<normVars, pipeVars, playerVars>>

InitRuns == RunsInit /\ NormIdle /\ PipeIdle /\ PlayerIdle

NextRuns ==
  \/ SinglePass
  \/ MultiPass
  \/ CreateMatched
  \/ CreateEstimated
  \/ Return
  \/ AlignAgain

SpecRuns == InitRuns /\ [][NextRuns]_vars

\* ------------------------------------------------------------------------
\* sync_lyrics_to_audio: load the lyrics, transcribe, align, write the files
\* ------------------------------------------------------------------------

\* exceptions the transcription collaborator may raise
ExceptionPool == {"RuntimeError", "OSError"}

\* runs with the default similarity_threshold (0.6) of sync_lyrics_to_audio
PipelineInputs == {inp \in Inputs : inp.threshold = 60}

\* the lyrics file (missing, or holding the lines), what the transcriber
\* does with the audio file, and the threshold
Worlds ==
  { w \in [lyrics_exists : BOOLEAN,
           lines : {inp.lines : inp \in PipelineInputs},
           raises : {"none"} \cup ExceptionPool,
           segments : {inp.segments : inp \in PipelineInputs},
           threshold : {60}] :
      /\ \E inp \in PipelineInputs :
           inp.lines = w.lines /\ inp.segments = w.segments
      /\ ~w.lyrics_exists => w.lines = <<>> }

\* lines 512-520: the output directory and the synchronizer exist, align_lyrics
\* is about to load the lyrics
PipeInit ==
  /\ world \in Worlds
  /\ ppc = "load"
  /\ load_calls = 0
  /\ transcribe_calls = 0
  /\ error = "none"
  /\ written = <<>>
  /\ files = NoFiles

\* load_lyrics_file returning an empty list for a missing file
LoadLyricsMissingReturnsEmpty ==
  /\ ppc = "load"
  /\ ~world.lyrics_exists
  /\ load_calls' = load_calls + 1
  /\ ppc' = "transcribe"
  /\ UNCHANGED <<world, transcribe_calls, error, written, files>>
  /\ UNCHANGED <<alignVars, normVars, runVars, playerVars>>

\* lines 238, 57-60: the lyrics file does not exist; FileNotFoundError leaves
\* load_lyrics_file, align_lyrics and sync_lyrics_to_audio
LoadLyricsMissing ==
  /\ ppc = "load"
  /\ ~world.lyrics_exists
  /\ load_calls' = load_calls + 1
  /\ error' = "FileNotFoundError"
  /\ ppc' = "raised"
  /\ UNCHANGED <<world, transcribe_calls, written, files>>
  /\ UNCHANGED <<alignVars, normVars, runVars, playerVars>>

\* lines 238-239, 62-70: the lyrics file is read
LoadLyrics ==
  /\ ppc = "load"
  /\ world.lyrics_exists
  /\ load_calls' = load_calls + 1
  /\ ppc' = "transcribe"
  /\ UNCHANGED <<world, transcribe_calls, error, written, files>>
  /\ UNCHANGED <<alignVars, normVars, runVars, playerVars>>

\* transcribe_with_timestamps swallowing the exception and returning the
\* segments collected so far
TranscribeFailsSwallowed ==
  /\ ppc = "transcribe"
  /\ world.raises # "none"
  /\ transcribe_calls' = transcribe_calls + 1
  /\ ppc' = "align"
  /\ UNCHANGED <<world, load_calls, error, written, files>>
  /\ UNCHANGED <<alignVars, normVars, runVars, playerVars>>

\* lines 243-245, 164-171, 201-203: the transcription raises; the exception
\* is printed and re-raised and leaves sync_lyrics_to_audio
TranscribeFails ==
  /\ ppc = "transcribe"
  /\ world.raises # "none"
  /\ transcribe_calls' = transcribe_calls + 1
  /\ error' = world.raises
  /\ ppc' = "raised"
  /\ UNCHANGED <<world, load_calls, written, files>>
  /\ UNCHANGED <<alignVars, normVars, runVars, playerVars>>

\* lines 243-245, 164-199: the transcription returns its segment list
Transcribe ==
  /\ ppc = "transcribe"
  /\ world.raises = "none"
  /\ transcribe_calls' = transcribe_calls + 1
  /\ ppc' = "align"
  /\ UNCHANGED <<world, load_calls, error, written, files>>
  /\ UNCHANGED <<alignVars, normVars, runVars, playerVars>>

\* lines 249-251, 262-276: _align_text_with_timestamps is entered
BeginAlign ==
  /\ ppc = "align"
  /\ pc = "idle"
  /\ lyrics_lines' = world.lines
  /\ transcription_segments' = world.segments
  /\ similarity_threshold' = world.threshold
  /\ aligned_segments' = <<>>
  /\ used_segments' = {}
  /\ i' = 1
  /\ pc' = IF world.lines = <<>> THEN "return" ELSE "single"
  /\ best_match' = NoMatch
  /\ best_score' = 0
  /\ best_segment_indices' = <<>>
  /\ contributing' = <<>>
  /\ UNCHANGED <<normVars, pipeVars, runVars, playerVars>>

\* lines 403-407: the line of one segment in the LRC file (times in tenths
\* of a second)
LrcEntry(segment) ==
  [minutes |-> segment.start_time \div 600,
   seconds |-> segment.start_time % 600,
   text |-> segment.text]

\* OutputGenerator._format_srt_time
format_srt_time(seconds) ==
  LET milliseconds == seconds * 100
  IN  [hours |-> milliseconds \div 3600000,
       minutes |-> (milliseconds % 3600000) \div 60000,
       secs |-> (milliseconds % 60000) \div 1000,
       milliseconds |-> milliseconds % 1000]

\* SrtEntry numbering the cues from 0 (enumerate without its start argument)
SrtEntryFromZero(k, segment) ==
  [index |-> k - 1,
   start_time |-> format_srt_time(segment.start_time),
   end_time |-> format_srt_time(segment.end_time),
   text |-> segment.text]

\* lines 415-421: the cue of the k-th segment (enumerate from 1)
SrtEntry(k, segment) ==
  [index |-> k,
   start_time |-> format_srt_time(segment.start_time),
   end_time |-> format_srt_time(segment.end_time),
   text |-> segment.text]

\* lines 439-451: the JSON object of one segment; word_timings is written
\* only when it is a non-empty list
JsonEntry(segment) ==
  [start_time |-> segment.start_time,
   end_time |-> segment.end_time,
   duration |-> segment.end_time - segment.start_time,
   text |-> segment.text,
   confidence |-> segment.confidence,
   has_word_timings |-> segment.word_timings # None /\ segment.word_timings # <<>>,
   word_timings |-> IF segment.word_timings # None THEN segment.word_timings ELSE <<>>]

\* lines 253-254, 532-535: align_lyrics has returned; OutputGenerator.save_as_lrc
SaveLrc ==
  /\ ppc = "align"
  /\ pc = "done"
  /\ files' = [files EXCEPT !.lrc =
                 [k \in 1..Len(aligned_segments) |-> LrcEntry(aligned_segments[k])]]
  /\ written' = Append(written, "lrc")
  /\ ppc' = "save_srt"
  /\ UNCHANGED <<world, load_calls, transcribe_calls, error>>
  /\ UNCHANGED <<alignVars, normVars, runVars, playerVars>>

\* lines 538-540: OutputGenerator.save_as_srt
SaveSrt ==
  /\ ppc = "save_srt"
  /\ files' = [files EXCEPT !.srt =
                 [k \in 1..Len(aligned_segments) |-> SrtEntry(k, aligned_segments[k])]]
  /\ written' = Append(written, "srt")
  /\ ppc' = "save_json"
  /\ UNCHANGED <<world, load_calls, transcribe_calls, error>>
  /\ UNCHANGED <<alignVars, normVars, runVars, playerVars>>

\* lines 543-552: OutputGenerator.save_as_json, the summary and the return
SaveJson ==
  /\ ppc = "save_json"
  /\ files' = [files EXCEPT !.json =
                 [k \in 1..Len(aligned_segments) |-> JsonEntry(aligned_segments[k])]]
  /\ written' = Append(written, "json")
  /\ ppc' = "returned"
  /\ UNCHANGED <<world, load_calls, transcribe_calls, error>>
  /\ UNCHANGED <<alignVars, normVars, runVars, playerVars>>

InitPipeline == PipeInit /\ AlignIdle /\ NormIdle /\ RunIdle /\ PlayerIdle

NextPipeline ==
  \/ LoadLyrics
  \/ LoadLyricsMissing
  \/ Transcribe
  \/ TranscribeFails
  \/ BeginAlign
  \/ SinglePass
  \/ MultiPass
  \/ CreateMatched
  \/ CreateEstimated
  \/ Return
  \/ SaveLrc
  \/ SaveSrt
  \/ SaveJson

SpecPipeline == InitPipeline /\ [][NextPipeline]_vars

\* ------------------------------------------------------------------------
\* LyricsProcessor.normalize_text applied to its own result
\* ------------------------------------------------------------------------

\* ------------------------------------------------------------------------
\* MacOSAudioPlayer: the calling thread and the _monitor_playback threads
\* ------------------------------------------------------------------------

\* most processes started by play() in one behaviour
MaxProcesses == 3

\* lines 23-32: the player after __init__ and load_audio, nothing playing
PlayerInit ==
  /\ process = 0
  /\ is_playing = FALSE
  /\ is_paused = FALSE
  /\ running = {}
  /\ spawned = 0
  /\ mpc = "idle"
  /\ was_playing = FALSE
  /\ in_seek = FALSE
  /\ monitor = <<>>

\* the user interface calls play(), pause(), stop() or seek()
Call ==
  /\ mpc = "idle"
  /\ \E method \in {"play", "pause", "stop", "seek"} :
       /\ method \in {"play", "seek"} => spawned < MaxProcesses
       /\ mpc' = method
  /\ UNCHANGED <<process, is_playing, is_paused, running, spawned,
                 was_playing, in_seek, monitor>>
  /\ UNCHANGED <<alignVars, normVars, pipeVars, runVars>>

\* play, lines 73-74: terminate the process of an earlier playback
PlayTerminate ==
  /\ mpc = "play"
  /\ running' = IF process # 0 THEN running \ {process} ELSE running
  /\ mpc' = IF process # 0 THEN "play_clear" ELSE "play_popen"
  /\ UNCHANGED <<process, is_playing, is_paused, spawned, was_playing,
                 in_seek, monitor>>
  /\ UNCHANGED <<alignVars, normVars, pipeVars, runVars>>

\* play, line 75
PlayClear ==
  /\ mpc = "play_clear"
  /\ process' = 0
  /\ mpc' = "play_popen"
  /\ UNCHANGED <<is_playing, is_paused, running, spawned, was_playing,
                 in_seek, monitor>>
  /\ UNCHANGED <<alignVars, normVars, pipeVars, runVars>>

\* play, lines 80-97: subprocess.Popen starts afplay or ffplay
PlayPopen ==
  /\ mpc = "play_popen"
  /\ spawned' = spawned + 1
  /\ process' = spawned + 1
  /\ running' = running \cup {spawned + 1}
  /\ mpc' = "play_set_playing"
  /\ UNCHANGED <<is_playing, is_paused, was_playing, in_seek, monitor>>
  /\ UNCHANGED <<alignVars, normVars, pipeVars, runVars>>

\* play, line 100
PlaySetPlaying ==
  /\ mpc = "play_set_playing"
  /\ is_playing' = TRUE
  /\ mpc' = "play_set_paused"
  /\ UNCHANGED <<process, is_paused, running, spawned, was_playing, in_seek,
                 monitor>>
  /\ UNCHANGED <<alignVars, normVars, pipeVars, runVars>>

\* play, lines 101-102
PlaySetPaused ==
  /\ mpc = "play_set_paused"
  /\ is_paused' = FALSE
  /\ mpc' = "play_thread"
  /\ UNCHANGED <<process, is_playing, running, spawned, was_playing, in_seek,
                 monitor>>
  /\ UNCHANGED <<alignVars, normVars, pipeVars, runVars>>

\* play, lines 105-107: start the monitor thread and return (to the caller
\* of play or to line 165 of seek)
PlayStartThread ==
  /\ mpc = "play_thread"
  /\ monitor' = Append(monitor, [pc |-> "check", proc |-> 0])
  /\ mpc' = "idle"
  /\ in_seek' = FALSE
  /\ UNCHANGED <<process, is_playing, is_paused, running, spawned,
                 was_playing>>
  /\ UNCHANGED <<alignVars, normVars, pipeVars, runVars>>

\* pause, line 123
PauseCheck ==
  /\ mpc = "pause"
  /\ mpc' = IF is_playing /\ process # 0 THEN "pause_terminate" ELSE "idle"
  /\ UNCHANGED <<process, is_playing, is_paused, running, spawned,
                 was_playing, in_seek, monitor>>
  /\ UNCHANGED <<alignVars, normVars, pipeVars, runVars>>

\* pause, lines 124-125
PauseTerminate ==
  /\ mpc = "pause_terminate"
  /\ running' = running \ {process}
  /\ mpc' = "pause_clear"
  /\ UNCHANGED <<process, is_playing, is_paused, spawned, was_playing,
                 in_seek, monitor>>
  /\ UNCHANGED <<alignVars, normVars, pipeVars, runVars>>

\* pause, line 126
PauseClear ==
  /\ mpc = "pause_clear"
  /\ process' = 0
  /\ mpc' = "pause_set_playing"
  /\ UNCHANGED <<is_playing, is_paused, running, spawned, was_playing,
                 in_seek, monitor>>
  /\ UNCHANGED <<alignVars, normVars, pipeVars, runVars>>

\* pause, line 127
PauseSetPlaying ==
  /\ mpc = "pause_set_playing"
  /\ is_playing' = FALSE
  /\ mpc' = "pause_set_paused"
  /\ UNCHANGED <<process, is_paused, running, spawned, was_playing, in_seek,
                 monitor>>
  /\ UNCHANGED <<alignVars, normVars, pipeVars, runVars>>

\* pause, lines 128-129
PauseSetPaused ==
  /\ mpc = "pause_set_paused"
  /\ is_paused' = TRUE
  /\ mpc' = "idle"
  /\ UNCHANGED <<process, is_playing, running, spawned, was_playing, in_seek,
                 monitor>>
  /\ UNCHANGED <<alignVars, normVars, pipeVars, runVars>>

\* stop, lines 133-134
StopTerminate ==
  /\ mpc = "stop"
  /\ running' = IF process # 0 THEN running \ {process} ELSE running
  /\ mpc' = IF process # 0 THEN "stop_clear" ELSE "stop_set_playing"
  /\ UNCHANGED <<process, is_playing, is_paused, spawned, was_playing,
                 in_seek, monitor>>
  /\ UNCHANGED <<alignVars, normVars, pipeVars, runVars>>

\* stop, line 135
StopClear ==
  /\ mpc = "stop_clear"
  /\ process' = 0
  /\ mpc' = "stop_set_playing"
  /\ UNCHANGED <<is_playing, is_paused, running, spawned, was_playing,
                 in_seek, monitor>>
  /\ UNCHANGED <<alignVars, normVars, pipeVars, runVars>>

\* stop, line 136
StopSetPlaying ==
  /\ mpc = "stop_set_playing"
  /\ is_playing' = FALSE
  /\ mpc' = "stop_set_paused"
  /\ UNCHANGED <<process, is_paused, running, spawned, was_playing, in_seek,
                 monitor>>
  /\ UNCHANGED <<alignVars, normVars, pipeVars, runVars>>

\* stop, lines 137-140, and the return: to the caller of stop, or to line 163
\* of seek, which calls play
StopSetPaused ==
  /\ mpc = "stop_set_paused"
  /\ is_paused' = FALSE
  /\ mpc' = IF in_seek THEN "play" ELSE "idle"
  /\ UNCHANGED <<process, is_playing, running, spawned, was_playing, in_seek,
                 monitor>>
  /\ UNCHANGED <<alignVars, normVars, pipeVars, runVars>>

\* seek, lines 158-162: was_playing is read; stop() is called when it is true
SeekRead ==
  /\ mpc = "seek"
  /\ was_playing' = is_playing
  /\ in_seek' = is_playing
  /\ mpc' = IF is_playing THEN "stop" ELSE "idle"
  /\ UNCHANGED <<process, is_playing, is_paused, running, spawned, monitor>>
  /\ UNCHANGED <<alignVars, normVars, pipeVars, runVars>>

\* the player process reaches the end of the audio file
ProcessEnds ==
  /\ \E p \in running : running' = running \ {p}
  /\ UNCHANGED <<process, is_playing, is_paused, spawned, mpc, was_playing,
                 in_seek, monitor>>
  /\ UNCHANGED <<alignVars, normVars, pipeVars, runVars>>

\* _monitor_playback, line 114: if self.process
MonitorCheck(t) ==
  /\ monitor[t].pc = "check"
  /\ monitor' = [monitor EXCEPT
                   ![t].pc = IF process # 0 THEN "bind" ELSE "ended"]
  /\ UNCHANGED <<process, is_playing, is_paused, running, spawned, mpc,
                 was_playing, in_seek>>
  /\ UNCHANGED <<alignVars, normVars, pipeVars, runVars>>

\* _monitor_playback, line 115: self.process is read again for the call of
\* wait; on None the thread ends with AttributeError
MonitorBind(t) ==
  /\ monitor[t].pc = "bind"
  /\ monitor' = [monitor EXCEPT
                   ![t] = IF process # 0
                          THEN [pc |-> "wait", proc |-> process]
                          ELSE [pc |-> "raised", proc |-> 0]]
  /\ UNCHANGED <<process, is_playing, is_paused, running, spawned, mpc,
                 was_playing, in_seek>>
  /\ UNCHANGED <<alignVars, normVars, pipeVars, runVars>>

\* _monitor_playback, line 115: wait returns once that process has ended
MonitorWake(t) ==
  /\ monitor[t].pc = "wait"
  /\ monitor[t].proc \notin running
  /\ monitor' = [monitor EXCEPT ![t].pc = "test"]
  /\ UNCHANGED <<process, is_playing, is_paused, running, spawned, mpc,
                 was_playing, in_seek>>
  /\ UNCHANGED <<alignVars, normVars, pipeVars, runVars>>

\* _monitor_playback, line 117: if self.is_playing
MonitorTest(t) ==
  /\ monitor[t].pc = "test"
  /\ monitor' = [monitor EXCEPT
                   ![t].pc = IF is_playing THEN "clear" ELSE "ended"]
  /\ UNCHANGED <<process, is_playing, is_paused, running, spawned, mpc,
                 was_playing, in_seek>>
  /\ UNCHANGED <<alignVars, normVars, pipeVars, runVars>>

\* _monitor_playback, lines 118-119
MonitorClear(t) ==
  /\ monitor[t].pc = "clear"
  /\ is_playing' = FALSE
  /\ monitor' = [monitor EXCEPT ![t].pc = "ended"]
  /\ UNCHANGED <<process, is_paused, running, spawned, mpc, was_playing,
                 in_seek>>
  /\ UNCHANGED <<alignVars, normVars, pipeVars, runVars>>

InitPlayer == PlayerInit /\ AlignIdle /\ NormIdle /\ PipeIdle /\ RunIdle

NextPlayer ==
  \/ Call
  \/ PlayTerminate
  \/ PlayClear
  \/ PlayPopen
  \/ PlaySetPlaying
  \/ PlaySetPaused
  \/ PlayStartThread
  \/ PauseCheck
  \/ PauseTerminate
  \/ PauseClear
  \/ PauseSetPlaying
  \/ PauseSetPaused
  \/ StopTerminate
  \/ StopClear
  \/ StopSetPlaying
  \/ StopSetPaused
  \/ SeekRead
  \/ ProcessEnds
  \/ \E t \in 1..Len(monitor) : MonitorCheck(t)
  \/ \E t \in 1..Len(monitor) : MonitorBind(t)
  \/ \E t \in 1..Len(monitor) : MonitorWake(t)
  \/ \E t \in 1..Len(monitor) : MonitorTest(t)
  \/ \E t \in 1..Len(monitor) : MonitorClear(t)

SpecPlayer == InitPlayer /\ [][NextPlayer]_vars

NormInit ==
  /\ norm_text \in SeqsOf(NormAlphabet, 0, MaxTextLen)
  /\ norm_once = <<>>
  /\ norm_twice = <<>>
  /\ norm_pc = "start"

\* y = normalize_text(x)
NormalizeOnce ==
  /\ norm_pc = "start"
  /\ norm_once' = normalize_text(norm_text)
  /\ norm_pc' = "once"
  /\ UNCHANGED <<norm_text, norm_twice>>
  /\ UNCHANGED <<alignVars, pipeVars, runVars, playerVars>>

\* z = normalize_text(y)
NormalizeTwice ==
  /\ norm_pc = "once"
  /\ norm_twice' = normalize_text(norm_once)
  /\ norm_pc' = "twice"
  /\ UNCHANGED <<norm_text, norm_once>>
  /\ UNCHANGED <<alignVars, pipeVars, runVars, playerVars>>

InitNormalize == NormInit /\ AlignIdle /\ PipeIdle /\ RunIdle /\ PlayerIdle

NextNormalize == NormalizeOnce \/ NormalizeTwice

SpecNormalize == InitNormalize /\ [][NextNormalize]_vars

\* ------------------------------------------------------------------------
\* Properties of the alignment (specification Spec)
\* ------------------------------------------------------------------------

\* the arguments of the run
Input ==
  [lines |-> lyrics_lines, segments |-> transcription_segments,
   threshold |-> similarity_threshold]

Outputs == 1..Len(aligned_segments)

\* output k was built from a match / from the estimate
Resolved(k) == contributing[k] # {}

Estimated(k) == contributing[k] = {}

\* C1: when the alignment returns, the output has exactly one segment per
\* reference line, whatever the segments and the threshold are.
C1_Completeness ==
  pc = "done" => Len(aligned_segments) = Len(lyrics_lines)

\* a finished run whose output mixes matched and estimated lines
C1_Witness ==
  /\ pc = "done"
  /\ \E p, q \in Outputs : Resolved(p) /\ Estimated(q)

\* C2: in every state, no transcribed-segment index contributes to two
\* output segments.
C2_Exclusivity ==
  \A p, q \in 1..Len(contributing) :
    p # q => contributing[p] \cap contributing[q] = {}

\* a window match and another match in one run
C2_Witness ==
  \E p, q \in 1..Len(contributing) :
    /\ p # q
    /\ Cardinality(contributing[p]) >= 2
    /\ contributing[q] # {}

\* C3: the k-th output segment carries the original text of the k-th
\* reference line.
C3_OrderAndText ==
  \A k \in Outputs : aligned_segments[k].text = lyrics_lines[k]

\* a matched line whose normalized text differs from its text, next to an
\* estimated line with another text
C3_Witness ==
  /\ pc = "done"
  /\ \E p, q \in Outputs :
       /\ Resolved(p) /\ Estimated(q)
       /\ lyrics_lines[p] # lyrics_lines[q]
       /\ normalize_text(lyrics_lines[p]) # lyrics_lines[p]

\* C4: every output segment has a confidence between 0.0 and 1.0.
C4_ConfidenceBound ==
  \A k \in Outputs :
    aligned_segments[k].confidence >= 0 /\ aligned_segments[k].confidence <= 100

\* outputs with confidence 1.0, with confidence 0.0 and strictly between
C4_Witness ==
  /\ \E k \in Outputs : aligned_segments[k].confidence = 100
  /\ \E k \in Outputs : aligned_segments[k].confidence = 0
  /\ \E k \in Outputs : aligned_segments[k].confidence \in 1..99

\* C5: an output segment has confidence 0.0 exactly when it is estimated;
\* a resolved segment has a confidence above 0 and at least the threshold.
C5_ConfidenceDistinguishes ==
  \A k \in Outputs :
    /\ Estimated(k) <=> aligned_segments[k].confidence = 0
    /\ Resolved(k) => /\ aligned_segments[k].confidence > 0
                      /\ aligned_segments[k].confidence >= similarity_threshold

\* threshold 0.0: a line estimated although unconsumed segments were left,
\* and a resolved line
C5_Witness ==
  /\ similarity_threshold = 0
  /\ \E k \in Outputs : Resolved(k)
  /\ \E k \in Outputs :
       /\ Estimated(k)
       /\ UNION {contributing[m] : m \in 1..k} # 1..Len(transcription_segments)

\* C6: an estimated segment that is not the first output starts 0.5 s after
\* the end of the output before it and lasts 3.0 s.
C6_FallbackSpacing ==
  \A k \in Outputs :
    (k > 1 /\ Estimated(k)) =>
      /\ aligned_segments[k].start_time = aligned_segments[k - 1].end_time + 5
      /\ aligned_segments[k].end_time = aligned_segments[k].start_time + 30

\* the example: the previous segment ended at 4.0, the estimate is 4.5-7.5
C6_Witness ==
  /\ Input = NoMatchInput
  /\ Len(aligned_segments) = 2
  /\ Resolved(1) /\ aligned_segments[1].end_time = 40
  /\ Estimated(2)
  /\ aligned_segments[2].start_time = 45
  /\ aligned_segments[2].end_time = 75

\* C7: an estimated segment has confidence 0.0 and no word timings; as the
\* first output it spans 0.0 to 3.0.
C7_FallbackAttributes ==
  \A k \in Outputs :
    Estimated(k) =>
      /\ aligned_segments[k].confidence = 0
      /\ aligned_segments[k].word_timings = None
      /\ k = 1 => /\ aligned_segments[k].start_time = 0
                  /\ aligned_segments[k].end_time = 30

\* the first line is estimated although segments exist, a later one matched
C7_Witness ==
  /\ Len(aligned_segments) >= 2
  /\ Estimated(1)
  /\ aligned_segments[1].start_time = 0
  /\ \E k \in Outputs : Resolved(k)

\* C9: the line "the quick brown fox jumps" split across two segments, at
\* threshold 0.6, resolves to one output combining both segments and
\* spanning 0.0 to 1.0.
C9_SplitLineCombined ==
  (Input = SplitLineInput /\ pc = "done") =>
    /\ Len(aligned_segments) = 1
    /\ aligned_segments[1].start_time = 0
    /\ aligned_segments[1].end_time = 10
    /\ contributing[1] = {1, 2}

\* C10: two lines, each identical to its own segment, at threshold 0.6: both
\* are resolved, copy the start and end of their own segment and have
\* confidence 1.0.
C10_ExactMatch ==
  (Input = ExactMatchInput /\ pc = "done") =>
    /\ Len(aligned_segments) = 2
    /\ \A k \in 1..2 :
         /\ contributing[k] = {k}
         /\ aligned_segments[k].start_time = transcription_segments[k].start
         /\ aligned_segments[k].end_time = transcription_segments[k].end
         /\ aligned_segments[k].confidence = 100

\* the exact-match run has returned
C10_Witness ==
  /\ Input = ExactMatchInput
  /\ pc = "done"
  /\ Len(aligned_segments) = 2

\* C11: with an empty segment list every output is an estimate chained from
\* the one before it: the k-th (from 0) spans 3.5*k to 3.5*k + 3.0.
C11_EmptyTranscriptChain ==
  transcription_segments = <<>> =>
    \A k \in Outputs :
      /\ Estimated(k)
      /\ aligned_segments[k].start_time = 35 * (k - 1)
      /\ aligned_segments[k].end_time = 35 * (k - 1) + 30

\* three lines, no segment: the estimates start at 0.0, 3.5 and 7.0
C11_Witness ==
  /\ transcription_segments = <<>>
  /\ pc = "done"
  /\ Len(aligned_segments) = 3
  /\ aligned_segments[1].start_time = 0
  /\ aligned_segments[2].start_time = 35
  /\ aligned_segments[3].start_time = 70

\* used_segments when the line of output k was processed
UsedBefore(k) == UNION {contributing[m] : m \in 1..(k - 1)}

\* the segment indices the loop of line 284 scores for the line of output k
SingleCandidates(k) ==
  {j \in 1..Len(transcription_segments) : j \notin UsedBefore(k)}

\* the score of line 296 of segment j for the line of output k
SingleScoreOf(k, j) ==
  SegmentScore(normalized_lyrics(k), transcription_segments[j])

\* the windows [start, start + size - 1] the loops of lines 367-371 score
\* for the line of output k
Windows(k) ==
  {w \in [size : 2..4, start : 1..Len(transcription_segments)] :
     /\ w.start + w.size - 1 <= Len(transcription_segments)
     /\ \A j \in w.start..(w.start + w.size - 1) : j \notin UsedBefore(k)}

WindowIndices(w) == w.start..(w.start + w.size - 1)

\* the score of line 383 of window w for the line of output k
WindowScoreOf(k, w) ==
  WindowScore(normalized_lyrics(k),
              SubSeq(transcription_segments, w.start, w.start + w.size - 1))

\* some unconsumed segment reaches the threshold for the line of output k
SingleReaches(k) ==
  \E j \in SingleCandidates(k) : SingleScoreOf(k, j) >= similarity_threshold

\* some eligible window reaches the threshold for the line of output k
WindowReaches(k) ==
  \E w \in Windows(k) : WindowScoreOf(k, w) >= similarity_threshold

\* C14: for every threshold, 0.0 included, a line is resolved exactly when
\* some unconsumed single segment reaches the threshold or, when none does,
\* some eligible window reaches it; it is estimated only when no candidate
\* reaches the threshold.
C14_ThresholdAcceptance ==
  \A k \in Outputs :
    Resolved(k) <=> (SingleReaches(k) \/ (~SingleReaches(k) /\ WindowReaches(k)))

\* C15: when some unconsumed single segment reaches the threshold, the match
\* of the line consumes exactly one segment index, whatever the windows score.
C15_SingleBeforeMulti ==
  \A k \in Outputs :
    SingleReaches(k) => Cardinality(contributing[k]) = 1

\* C16: when some unconsumed segment reaches the threshold, the line is
\* matched to one unconsumed segment with the highest score among the
\* unconsumed segments, the lowest index among those of that score.
C16_SingleSelection ==
  \A k \in Outputs :
    SingleReaches(k) =>
      \E j \in SingleCandidates(k) :
        /\ contributing[k] = {j}
        /\ aligned_segments[k].confidence = SingleScoreOf(k, j)
        /\ \A m \in SingleCandidates(k) :
             /\ SingleScoreOf(k, m) <= SingleScoreOf(k, j)
             /\ SingleScoreOf(k, m) = SingleScoreOf(k, j) => j <= m

\* C17: the indices of every multi-segment match are a run of 2, 3 or 4
\* consecutive indices in segment order, none of them consumed before; so a
\* window never joins segments on both sides of a consumed one.
C17_WindowStructure ==
  /\ \A k \in Outputs :
       Cardinality(contributing[k]) >= 2 =>
         /\ \E w \in [size : 2..4, start : 1..Len(transcription_segments)] :
              /\ w.start + w.size - 1 <= Len(transcription_segments)
              /\ contributing[k] = WindowIndices(w)
         /\ contributing[k] \cap UsedBefore(k) = {}
  /\ (pc = "create" /\ best_match.kind = "list") =>
       /\ Len(best_segment_indices) \in 2..4
       /\ \A n \in 1..Len(best_segment_indices) :
            best_segment_indices[n] = best_segment_indices[1] + n - 1
       /\ best_match.segs =
            [n \in 1..Len(best_segment_indices) |->
               transcription_segments[best_segment_indices[n]]]
       /\ SeqRange(best_segment_indices) \cap used_segments = {}

\* a window of four segments matched while a consumed segment lies between
\* unconsumed ones
C17_Witness ==
  /\ pc = "done"
  /\ \E k \in Outputs :
       /\ Cardinality(contributing[k]) = 4
       /\ \E u \in UsedBefore(k) :
            /\ u - 1 \in SingleCandidates(k)
            /\ u + 1 \in SingleCandidates(k)

\* C18: a multi-segment match is the eligible window of the highest score
\* among the windows of sizes 2 to 4 at all positions; among windows of that
\* score it is one of the smallest size and, within that size, the one of
\* the lowest start index.
C18_WindowSelection ==
  \A k \in Outputs :
    Cardinality(contributing[k]) >= 2 =>
      \E w \in Windows(k) :
        /\ contributing[k] = WindowIndices(w)
        /\ aligned_segments[k].confidence = WindowScoreOf(k, w)
        /\ \A v \in Windows(k) :
             /\ WindowScoreOf(k, v) <= WindowScoreOf(k, w)
             /\ WindowScoreOf(k, v) = WindowScoreOf(k, w) =>
                  \/ w.size < v.size
                  \/ w.size = v.size /\ w.start <= v.start

\* the match is the first of three windows of its score: another one of its
\* size starts later and a third one is larger
C18_Witness ==
  /\ pc = "done"
  /\ \E k \in Outputs :
       /\ contributing[k] = {1, 2}
       /\ \E v1, v2 \in Windows(k) :
            /\ v1.size = 2 /\ v1.start > 1
            /\ v2.size > 2
            /\ WindowScoreOf(k, v1) = aligned_segments[k].confidence
            /\ WindowScoreOf(k, v2) = aligned_segments[k].confidence

\* C19: an output matched to one segment has the start, the end and the word
\* timings of that segment, and the score computed for that segment as its
\* confidence.
C19_SingleMatchTiming ==
  \A k \in Outputs :
    \A j \in 1..Len(transcription_segments) :
      contributing[k] = {j} =>
        /\ aligned_segments[k].start_time = transcription_segments[j].start
        /\ aligned_segments[k].end_time = transcription_segments[j].end
        /\ aligned_segments[k].word_timings = transcription_segments[j].words
        /\ aligned_segments[k].confidence = SingleScoreOf(k, j)

\* a line matched with a confidence below 1.0 to a segment at another
\* position than its own
C19_Witness ==
  /\ pc = "done"
  /\ \E k \in Outputs :
       \E j \in 1..Len(transcription_segments) :
         /\ contributing[k] = {j}
         /\ j # k
         /\ aligned_segments[k].confidence \in 1..99
         /\ aligned_segments[k].start_time = 10 * (j - 1)
         /\ aligned_segments[k].word_timings # <<>>

RECURSIVE WordsInIndexOrder(_)
\* the word timings of the segments of S, in index order
WordsInIndexOrder(S) ==
  IF S = {} THEN <<>>
  ELSE transcription_segments[SetMin(S)].words
         \o WordsInIndexOrder(S \ {SetMin(S)})

\* C20: an output matched to several segments starts at the minimum start
\* and ends at the maximum end of these segments, and its word timings are
\* theirs concatenated in segment-index order.
C20_MultiMatchTiming ==
  \A k \in Outputs :
    Cardinality(contributing[k]) >= 2 =>
      /\ aligned_segments[k].start_time =
           SetMin({transcription_segments[j].start : j \in contributing[k]})
      /\ aligned_segments[k].end_time =
           SetMax({transcription_segments[j].end : j \in contributing[k]})
      /\ aligned_segments[k].word_timings = WordsInIndexOrder(contributing[k])

\* a window whose last segment ends before its first one, with words that
\* are not in alphabetical order
C20_Witness ==
  /\ pc = "done"
  /\ \E k \in Outputs :
       /\ contributing[k] = {1, 2}
       /\ transcription_segments[2].end < transcription_segments[1].end
       /\ aligned_segments[k].start_time = 0
       /\ aligned_segments[k].end_time = 30
       /\ aligned_segments[k].word_timings = <<"dab", "ccd">>

\* C21: the lines are resolved one after the other in reference order: a
\* step adds at most one output, the one of line i, which is then matched or
\* estimated for good; the outputs created before keep their start, end,
\* text, confidence and kind.
C21_PerLineStateMachine ==
  /\ [](pc \in {"single", "multi", "create"} => i = Len(aligned_segments) + 1)
  /\ [](Len(contributing) = Len(aligned_segments))
  /\ [][/\ \A k \in Outputs :
             /\ k \in 1..Len(aligned_segments')
             /\ aligned_segments'[k] = aligned_segments[k]
             /\ contributing'[k] = contributing[k]
        /\ Len(aligned_segments') <= Len(aligned_segments) + 1
        /\ Len(aligned_segments') = Len(aligned_segments) + 1 =>
             /\ pc = "create"
             /\ i' = i + 1
             /\ aligned_segments'[i].text = lyrics_lines[i]
        /\ i' >= i]_vars

\* three lines resolved in turn: matched, estimated, matched
C21_Witness ==
  /\ pc = "done"
  /\ Len(aligned_segments) = 3
  /\ Resolved(1) /\ Estimated(2) /\ Resolved(3)

\* C22: no step changes the reference lines or the transcribed segments, and
\* the consumption set changes only when a match is accepted, by exactly the
\* indices of that match; the single pass, the window pass and the fallback
\* leave it as it is.
C22_ConsumptionFrame ==
  [][/\ lyrics_lines' = lyrics_lines
     /\ transcription_segments' = transcription_segments
     /\ pc \in {"single", "multi"} => used_segments' = used_segments
     /\ (pc = "create"
           /\ ~(Truthy(best_match) /\ best_score >= similarity_threshold)) =>
          used_segments' = used_segments
     /\ used_segments' # used_segments =>
          /\ pc = "create"
          /\ Truthy(best_match) /\ best_score >= similarity_threshold
          /\ used_segments' = used_segments \cup SeqRange(best_segment_indices)
          /\ Len(contributing') = Len(contributing) + 1
          /\ contributing'[Len(contributing')] = SeqRange(best_segment_indices)
          /\ used_segments' \ used_segments = SeqRange(best_segment_indices)]_vars

\* a run in which a window was accepted after a window pass that returned
\* nothing and a fallback
C22_Witness ==
  /\ pc = "done"
  /\ Len(aligned_segments) >= 2
  /\ Estimated(1)
  /\ ~SingleReaches(1) /\ Windows(1) # {}
  /\ \E k \in Outputs : Cardinality(contributing[k]) >= 2
  /\ used_segments = UNION {contributing[k] : k \in Outputs}

\* C24: a consumed index stays consumed and stays with the line that
\* consumed it: no step removes an index from the consumption set or changes
\* the indices of an earlier line.
C24_NoBacktracking ==
  /\ [](\A k \in 1..Len(contributing) : contributing[k] \subseteq used_segments)
  /\ [][/\ used_segments \subseteq used_segments'
        /\ \A k \in 1..Len(contributing) :
             /\ k \in 1..Len(contributing')
             /\ contributing'[k] = contributing[k]]_vars

\* a line is estimated although a segment carries exactly its text: an
\* earlier line consumed that segment with a lower score than the later line
\* has against it
C24_Witness ==
  /\ pc = "done"
  /\ \E k \in Outputs :
       /\ Estimated(k)
       /\ \E m \in 1..(k - 1) :
            \E j \in contributing[m] :
              /\ transcription_segments[j].text = lyrics_lines[k]
              /\ contributing[m] = {j}
              /\ SingleScoreOf(k, j) = 100
              /\ aligned_segments[m].confidence < 100
              /\ j \in used_segments

\* C25 as stated: two estimated outputs never overlap, whatever lies between
\* them in the output.
C25_EstimatedNonOverlap ==
  \A p, q \in Outputs :
    (p < q /\ Estimated(p) /\ Estimated(q)) =>
      aligned_segments[p].end_time <= aligned_segments[q].start_time

\* C25 amended: two estimated outputs do not overlap when every output
\* between them is estimated too.
C25_EstimatedRunNonOverlap ==
  \A p, q \in Outputs :
    (p < q /\ \A k \in p..q : Estimated(k)) =>
      aligned_segments[p].end_time <= aligned_segments[q].start_time

\* two estimates in a row after a matched line
C25_Witness ==
  /\ pc = "done"
  /\ Len(aligned_segments) = 3
  /\ Resolved(1) /\ Estimated(2) /\ Estimated(3)
  /\ aligned_segments[2].start_time > 0

\* C26: the starts of consecutive outputs are not always non-decreasing; an
\* output starts before the one ahead of it only where it was resolved, and
\* it then starts with the earliest of its segments, whatever the earlier
\* lines got.
C26_StartOrderNotGuaranteed ==
  \A k \in Outputs :
    (k + 1 \in Outputs
       /\ aligned_segments[k].start_time > aligned_segments[k + 1].start_time) =>
      /\ Resolved(k + 1)
      /\ aligned_segments[k + 1].start_time =
           SetMin({transcription_segments[j].start : j \in contributing[k + 1]})

\* segments in non-decreasing start order, and an estimated output that
\* starts after the output that follows it
C26_Witness ==
  /\ pc = "done"
  /\ \A j \in 1..(Len(transcription_segments) - 1) :
       transcription_segments[j].start <= transcription_segments[j + 1].start
  /\ \E k \in Outputs :
       /\ k + 1 \in Outputs
       /\ Estimated(k)
       /\ aligned_segments[k].start_time > aligned_segments[k + 1].start_time

\* C28: when every transcribed segment has start <= end, every output has
\* start_time <= end_time, and an estimated output start_time < end_time.
C28_WellFormedIntervals ==
  (\A j \in 1..Len(transcription_segments) :
     transcription_segments[j].start <= transcription_segments[j].end) =>
    \A k \in Outputs :
      /\ aligned_segments[k].start_time <= aligned_segments[k].end_time
      /\ Estimated(k) =>
           aligned_segments[k].start_time < aligned_segments[k].end_time

\* a single-segment match, a window match and a fallback in one run
C28_Witness ==
  /\ pc = "done"
  /\ \E k \in Outputs : Cardinality(contributing[k]) = 1
  /\ \E k \in Outputs : Cardinality(contributing[k]) >= 2
  /\ \E k \in Outputs : Estimated(k) /\ aligned_segments[k].start_time > 0

\* C29: the consumption set holds valid segment indices only, and there are
\* never more resolved lines than transcribed segments; a finished run with
\* fewer segments than lines has at least len(lines) - len(segments)
\* estimated lines.
C29_BoundedResolution ==
  /\ used_segments \subseteq 1..Len(transcription_segments)
  /\ Cardinality({k \in Outputs : Resolved(k)}) <= Len(transcription_segments)
  /\ (pc = "done" /\ Len(transcription_segments) < Len(lyrics_lines)) =>
       Cardinality({k \in Outputs : Estimated(k)})
         >= Len(lyrics_lines) - Len(transcription_segments)

\* three lines that all match the only segment: one gets it
C29_Witness ==
  /\ pc = "done"
  /\ Len(lyrics_lines) = 3 /\ Len(transcription_segments) = 1
  /\ \A k \in Outputs : SegmentScore(normalized_lyrics(k), transcription_segments[1])
                          >= similarity_threshold
  /\ Cardinality({k \in Outputs : Resolved(k)}) = 1
  /\ Cardinality({k \in Outputs : Estimated(k)}) = 2

\* ------------------------------------------------------------------------
\* Properties of several runs on one synchronizer (specification SpecRuns)
\* ------------------------------------------------------------------------

\* C23: every run starts with an empty consumption set, and runs with the
\* same lines, segments and threshold return the same output list, whatever
\* was aligned before or in between.
C23_RunScoping ==
  /\ (pc \in {"single", "multi", "create"} /\ i = 1) => used_segments = {}
  /\ \A p, q \in 1..Len(runs) :
       runs[p].input = runs[q].input => runs[p].output = runs[q].output
  /\ pc = "done" =>
       \A p \in 1..Len(runs) :
         runs[p].input = Input => runs[p].output = aligned_segments

\* the third run has the arguments of the first one, which consumed
\* segments; the run between them had other arguments and consumed segments
\* too
C23_Witness ==
  /\ pc = "done"
  /\ Len(runs) = 2
  /\ runs[1].input = Input
  /\ runs[2].input # Input
  /\ used_segments # {}
  /\ \E k \in 1..Len(runs[2].output) : runs[2].output[k].confidence > 0
  /\ runs[1].output = aligned_segments

\* ------------------------------------------------------------------------
\* Properties of sync_lyrics_to_audio (specification SpecPipeline)
\* ------------------------------------------------------------------------

\* C12: when the lyrics file does not exist the run ends with
\* FileNotFoundError after one call of load_lyrics_file; the transcription is
\* never invoked, the alignment never starts and no output file is written.
C12_MissingLyricsFailFast ==
  ~world.lyrics_exists =>
    /\ transcribe_calls = 0
    /\ pc = "idle"
    /\ written = <<>> /\ files = NoFiles
    /\ load_calls <= 1
    /\ ppc \in {"load", "raised"}
    /\ ppc = "raised" => (error = "FileNotFoundError" /\ load_calls = 1)

\* the run with a missing lyrics file has failed
C12_Witness ==
  /\ ~world.lyrics_exists
  /\ ppc = "raised"
  /\ error = "FileNotFoundError"
  /\ load_calls = 1

\* C13: when the transcription raises, the same exception leaves the run
\* after exactly one call of the transcription; the alignment never runs and
\* no output file is written.
C13_TranscriptionFailurePropagates ==
  (world.lyrics_exists /\ world.raises # "none") =>
    /\ pc = "idle"
    /\ written = <<>> /\ files = NoFiles
    /\ ppc \in {"load", "transcribe", "raised"}
    /\ ppc = "raised" => (error = world.raises /\ transcribe_calls = 1)
    /\ ppc # "raised" => (error = "none" /\ transcribe_calls = 0)

\* the lyrics were loaded and the transcription raised OSError
C13_Witness ==
  /\ world.lyrics_exists
  /\ world.lines # <<>>
  /\ world.raises = "OSError"
  /\ ppc = "raised"
  /\ error = "OSError"
  /\ load_calls = 1
  /\ transcribe_calls = 1

\* C27: the steps run in the order load, transcribe, align, LRC, SRT, JSON;
\* a file is written only after the alignment has returned, and it then
\* holds one entry per output segment, in output order; the SRT cues are
\* numbered 1..n.
C27_OutputFiles ==
  /\ \E n \in 0..3 : written = SubSeq(<<"lrc", "srt", "json">>, 1, n)
  /\ transcribe_calls <= load_calls /\ load_calls <= 1
  /\ pc # "idle" => (load_calls = 1 /\ transcribe_calls = 1)
  /\ written # <<>> => (pc = "done" /\ error = "none")
  /\ ppc = "returned" => written = <<"lrc", "srt", "json">>
  /\ IF "lrc" \in SeqRange(written)
     THEN /\ Len(files.lrc) = Len(aligned_segments)
          /\ \A k \in Outputs :
               /\ files.lrc[k].text = aligned_segments[k].text
               /\ 600 * files.lrc[k].minutes + files.lrc[k].seconds
                    = aligned_segments[k].start_time
     ELSE files.lrc = <<>>
  /\ IF "srt" \in SeqRange(written)
     THEN /\ Len(files.srt) = Len(aligned_segments)
          /\ \A k \in Outputs :
               /\ files.srt[k].index = k
               /\ files.srt[k].text = aligned_segments[k].text
               /\ files.srt[k].start_time
                    = format_srt_time(aligned_segments[k].start_time)
               /\ files.srt[k].end_time
                    = format_srt_time(aligned_segments[k].end_time)
     ELSE files.srt = <<>>
  /\ IF "json" \in SeqRange(written)
     THEN /\ Len(files.json) = Len(aligned_segments)
          /\ \A k \in Outputs :
               /\ files.json[k].text = aligned_segments[k].text
               /\ files.json[k].start_time = aligned_segments[k].start_time
               /\ files.json[k].end_time = aligned_segments[k].end_time
               /\ files.json[k].confidence = aligned_segments[k].confidence
     ELSE files.json = <<>>

\* a run that returned after writing the three files for three outputs,
\* matched and estimated, with different texts
C27_Witness ==
  /\ ppc = "returned"
  /\ written = <<"lrc", "srt", "json">>
  /\ Len(aligned_segments) = 3
  /\ Len(files.srt) = 3 /\ files.srt[3].index = 3
  /\ \E p, q \in Outputs :
       /\ Resolved(p) /\ Estimated(q)
       /\ aligned_segments[p].text # aligned_segments[q].text

\* ------------------------------------------------------------------------
\* Properties of MacOSAudioPlayer (specification SpecPlayer)
\* ------------------------------------------------------------------------

\* C30: between calls of the player's methods is_playing and is_paused are
\* never both true; a monitor thread clears is_playing only when the process
\* of the current playback has ended; and is_playing is true while the
\* process started by the last play() (also the one inside seek()) is
\* running, under every interleaving with the monitor threads of terminated
\* processes.
C30_PlayingFlag ==
  /\ [](mpc = "idle" => ~(is_playing /\ is_paused))
  /\ [][(is_playing /\ ~is_playing' /\ monitor' # monitor)
          => process \notin running]_vars
  /\ []((mpc = "idle" /\ process \in running) => is_playing)

\* ------------------------------------------------------------------------
\* Properties of normalize_text (specification SpecNormalize)
\* ------------------------------------------------------------------------

\* C8: normalize_text(normalize_text(x)) = normalize_text(x) for every x.
C8_NormalizeIdempotent ==
  norm_pc = "twice" => norm_twice = norm_once

====
